---- MODULE Spec2Model ----
(***************************************************************************)
(* sprite-shape: an image's alpha channel is rasterised into a grid of     *)
(* cell densities (generate_mesh), contoured by marching_triangles, turned *)
(* into front/back/side vertices, the texture is repaired by fix_texture   *)
(* (multi-source breadth-first flood fill) and the result is packed by     *)
(* glb::save.                                                              *)
(*                                                                         *)
(* f32 values are modelled as exact rationals <<n, d>> in lowest terms     *)
(* with d > 0, so f32 rounding is not modelled; division by zero (inf/NaN) *)
(* is modelled by the value NonFinite, which fails every comparison the    *)
(* code makes with it.  Unit normals are modelled by their direction       *)
(* (see Normalize).  usize lengths in glb::save keep their width: they are *)
(* pairs <<hi, lo>> in base 2^16 (see the Big operators).                 *)
(***************************************************************************)
EXTENDS Integers, Sequences, FiniteSets, TLC

-----------------------------------------------------------------------------
(* Bounds of the model *)

\* largest image width and height explored
MaxDim == 4

\* largest cell_size explored
MaxCell == 4

-----------------------------------------------------------------------------
(* Rationals *)

Abs(n) == IF n < 0 THEN -n ELSE n

RECURSIVE Gcd(_, _)
Gcd(a, b) == IF b = 0 THEN a ELSE Gcd(b, a % b)

Rat(n, d) ==
    LET g == Gcd(Abs(n), Abs(d))
        s == IF d < 0 THEN -1 ELSE 1
    IN  <<(s * n) \div g, (s * d) \div g>>

RInt(n) == <<n, 1>>
RZero == <<0, 1>>
ROne == <<1, 1>>
RHalf == <<1, 2>>
RAdd(a, b) == Rat(a[1] * b[2] + b[1] * a[2], a[2] * b[2])
RSub(a, b) == Rat(a[1] * b[2] - b[1] * a[2], a[2] * b[2])
RMul(a, b) == Rat(a[1] * b[1], a[2] * b[2])
RDiv(a, b) == Rat(a[1] * b[2], a[2] * b[1])
RLt(a, b) == a[1] * b[2] < b[1] * a[2]
RLe(a, b) == a[1] * b[2] <= b[1] * a[2]
RNeg(a) == <<-a[1], a[2]>>

\* the result of an f32 division by zero (an infinity or a NaN)
NonFinite == <<0, 0>>

Min(a, b) == IF a < b THEN a ELSE b

\* F applied to the value of x, which is evaluated once
Bind(x, F(_)) == CHOOSE r \in { F(v) : v \in {x} } : TRUE

-----------------------------------------------------------------------------
(* The inputs: an RGBA image and the Options *)

\* u8::MAX, the alpha of a fully opaque pixel
U8Max == 255

\* a partially transparent alpha, 2/5 of u8::MAX
SemiAlpha == (2 * U8Max) \div 5

AlphaVals == {0, SemiAlpha, U8Max}

Pixels(w, h) == (0 .. w - 1) \X (0 .. h - 1)

\* the image sizes explored
Dims == (0 .. MaxDim) \X (0 .. MaxDim)

\* the pixels [0, x1] x [0, y1], a block in the corner of the image
CornerBlock(x1, y1) == (0 .. x1) \X (0 .. y1)

Uniform(w, h, bg) == [w |-> w, h |-> h, a |-> [p \in Pixels(w, h) |-> bg]]

TwoTone(w, h, bg, fg, S) ==
    [w |-> w, h |-> h, a |-> [p \in Pixels(w, h) |-> IF p \in S THEN fg ELSE bg]]

\* The images explored, per size: the uniform ones; an opaque corner block
\* on a transparent ground and the reverse; one pixel that differs from the
\* ground (opaque or partial on transparent, transparent on opaque).  The
\* colour of a pixel is modelled by the pixel's own coordinates (all colours
\* distinct): no code path branches on RGB.
ImagesOf(w, h) ==
    { Uniform(w, h, bg) : bg \in AlphaVals }
    \cup { TwoTone(w, h, al[1], al[2], CornerBlock(q[1], q[2])) :
            q \in Pixels(w, h), al \in { <<0, U8Max>>, <<U8Max, 0>> } }
    \cup { TwoTone(w, h, al[1], al[2], {q}) :
            q \in Pixels(w, h),
            al \in { <<0, U8Max>>, <<0, SemiAlpha>>, <<U8Max, 0>> } }

Images == UNION { ImagesOf(d[1], d[2]) : d \in Dims }

\* Options::default(), lib.rs 207-219
DefaultOptions ==
    [cell_size |-> 10, iso |-> RHalf, normal_uv_offset |-> 2,
     thickness |-> <<1, 10>>, height |-> ROne,
     front_face |-> TRUE, back_face |-> TRUE]

\* The options explored: every cell_size up to MaxCell with the defaults and
\* with one other field changed (iso at either end of its slider, no uv
\* offset, a face switched off, both faces switched off).
OptionVariants ==
    { DefaultOptions,
      [DefaultOptions EXCEPT !.iso = RZero],
      [DefaultOptions EXCEPT !.iso = ROne],
      [DefaultOptions EXCEPT !.normal_uv_offset = 0],
      [DefaultOptions EXCEPT !.front_face = FALSE],
      [DefaultOptions EXCEPT !.back_face = FALSE],
      [DefaultOptions EXCEPT !.front_face = FALSE, !.back_face = FALSE] }

OptionsSet == { [o EXCEPT !.cell_size = c] : o \in OptionVariants, c \in 0 .. MaxCell }

-----------------------------------------------------------------------------
VARIABLES
    pc,         \* position of the call: "start", then "loop" (fix_texture), "done" or "panic"
    texture,    \* generate_mesh, fix_texture: the source image
    options,    \* generate_mesh: the Options
    cells,      \* generate_mesh: the density grid, cells[x][y]
    bb,         \* marching_triangles: the box it is called with
    faces,      \* generate_mesh: the contour faces
    normals,    \* generate_mesh: the normal table
    vertices,   \* generate_mesh: the returned Vec<Vertex>
    queue,      \* fix_texture: the VecDeque of (v, nearest); empty before the call
    visited,    \* fix_texture: the HashSet of pixels; empty before the call
    new_data,   \* fix_texture: the colours written, new_data[<<x, y>>]; no entry before line 235
    fixed,      \* fix_texture: <<>> until it returns, then <<the returned texture>>
    mesh,       \* glb::save: the positions of sprite.mesh
    json_len,   \* glb::save: json_string.len()
    png_len,    \* glb::save: the bytes image.write_to writes
    glb         \* glb::save: what the call built (header, accessor bounds, lengths)

meshVars == <<cells, bb, faces, normals, vertices>>
texVars == <<queue, visited, new_data, fixed>>
glbVars == <<mesh, json_len, png_len, glb>>
vars == <<pc, texture, options, meshVars, texVars, glbVars>>

None == "none"

-----------------------------------------------------------------------------
(* generate_mesh: the density grid (lib.rs 87-107) *)

\* (size + cell_size - 1) / cell_size
GridDim(size, c) == (size + c - 1) \div c

\* data.get(x, y).a as f32 / u8::MAX as f32
AlphaOf(img, x, y) == Rat(img.a[<<x, y>>], U8Max)

\* the accumulation loop, pixel k of the x-major scan; acc is cells[x][y]
RECURSIVE Accumulate(_, _, _, _)
Accumulate(img, c, k, acc) ==
    IF k = img.w * img.h THEN acc
    ELSE LET x == k \div img.h
             y == k % img.h
             cx == x \div c
             cy == y \div c
         IN  Accumulate(img, c, k + 1,
                 [acc EXCEPT ![cx][cy] = RAdd(@, AlphaOf(img, x, y))])

\* the nominal cell_size * cell_size, whatever the cell covers
CellPixelsNominal(img, c, x, y) == c * c

\* the number of pixels a cell is divided by
CellPixels(img, c, x, y) == Min(c, img.w - x * c) * Min(c, img.h - y * c)

BuildCells(img, c) ==
    LET nx == GridDim(img.w, c)
        ny == GridDim(img.h, c)
        zero == [x \in 0 .. nx - 1 |-> [y \in 0 .. ny - 1 |-> RZero]]
        sums == Accumulate(img, c, 0, zero)
    IN  [x \in DOMAIN sums |->
            [y \in DOMAIN sums[x] |->
                RDiv(sums[x][y], RInt(CellPixels(img, c, x, y)))]]

\* cells.len() and cells[0].len()
CellsLen(cs) == Cardinality(DOMAIN cs)
Cells0Len(cs) == Cardinality(DOMAIN cs[0])

-----------------------------------------------------------------------------
(* marching_triangles (lib.rs 26-76) *)

V2(x, y) == <<RInt(x), RInt(y)>>

\* **ia < **ib: the arrays [x, y] compared lexicographically
LexLess(ia, ib) == ia[1] < ib[1] \/ (ia[1] = ib[1] /\ ia[2] < ib[2])

\* t = (iso - va) / (vb - va)
CrossT(iso, va, vb) == IF va = vb THEN NonFinite ELSE RDiv(RSub(iso, va), RSub(vb, va))

\* t >= 0.0 && t <= 1.0
InsideClosed(t) == t # NonFinite /\ RLe(RZero, t) /\ RLe(t, ROne)

\* t > 0.0 && t < 1.0
StrictlyInside(t) == t # NonFinite /\ RLt(RZero, t) /\ RLt(t, ROne)

\* a + (b - a) * t on vec2<f32>
Lerp(a, b, t) ==
    <<RAdd(a[1], RMul(RSub(b[1], a[1]), t)), RAdd(a[2], RMul(RSub(b[2], a[2]), t))>>

\* the comparison the other way round (the mesh of value <= iso)
InsideFlipped(iso, v) == RLe(v, iso)

\* va >= iso ("mesh for value >= iso")
Inside(iso, v) == RLe(iso, v)

\* the vertices one corner pair (ia, ib) pushes onto current
PairVertices(f, iso, ia, ib) ==
    LET va == f[ia]
        vb == f[ib]
        a == V2(ia[1], ia[2])
        b == V2(ib[1], ib[2])
        sw == ~LexLess(ia, ib)
        a2 == IF sw THEN b ELSE a
        b2 == IF sw THEN a ELSE b
        va2 == IF sw THEN vb ELSE va
        vb2 == IF sw THEN va ELSE vb
        t == CrossT(iso, va2, vb2)
    IN  (IF Inside(iso, va) THEN <<[pos |-> a, value |-> va]>> ELSE <<>>)
        \o (IF StrictlyInside(t) THEN <<[pos |-> Lerp(a2, b2, t), value |-> iso]>> ELSE <<>>)
        \o (IF Inside(iso, vb) THEN <<[pos |-> b, value |-> vb]>> ELSE <<>>)

\* the corners of cell (x, y) in the order march is given them
Corners(x, y) == << <<x, y>>, <<x + 1, y>>, <<x + 1, y + 1>>, <<x, y + 1>> >>

\* circular_tuple_windows over a sequence
CircularPairs(s) == [i \in 1 .. Len(s) |-> <<s[i], s[(i % Len(s)) + 1]>>]

\* the concatenation of ss[lo], ..., ss[hi]
RECURSIVE FlattenRange(_, _, _)
FlattenRange(ss, lo, hi) ==
    IF lo > hi THEN <<>>
    ELSE IF lo = hi THEN ss[lo]
    ELSE LET mid == (lo + hi) \div 2
         IN  FlattenRange(ss, lo, mid) \o FlattenRange(ss, mid + 1, hi)

\* Iterator::flatten over a sequence of sequences
Flatten(ss) == FlattenRange(ss, 1, Len(ss))

\* current, the vertices collected for one cell
Current(f, iso, vs) ==
    LET ps == CircularPairs(vs)
    IN  Flatten([i \in 1 .. Len(vs) |-> PairVertices(f, iso, ps[i][1], ps[i][2])])

\* a strip instead of a fan: (v[i-1], v[i], v[i+1])
FanAsStrip(current) ==
    IF Len(current) >= 3
    THEN [i \in 1 .. Len(current) - 2 |-> <<current[i], current[i + 1], current[i + 2]>>]
    ELSE <<>>

\* the fan pushed for one cell
Fan(current) ==
    IF Len(current) >= 3
    THEN [i \in 1 .. Len(current) - 2 |-> <<current[1], current[i + 1], current[i + 2]>>]
    ELSE <<>>

March(f, iso, vs) == Fan(Current(f, iso, vs))

\* the cells visited, x-major: for x in bb.min.x..bb.max.x, for y in bb.min.y..bb.max.y
CellOrder(box) ==
    LET w == IF box.max[1] > box.min[1] THEN box.max[1] - box.min[1] ELSE 0
        h == IF box.max[2] > box.min[2] THEN box.max[2] - box.min[2] ELSE 0
    IN  [k \in 1 .. w * h |->
            <<box.min[1] + ((k - 1) \div h), box.min[2] + ((k - 1) % h)>>]

marching_triangles(box, f, iso) ==
    LET order == CellOrder(box)
    IN  Flatten([k \in 1 .. Len(order) |->
                    March(f, iso, Corners(order[k][1], order[k][2]))])

\* Aabb2::ZERO.extend_positive(vec2(cells.len(), cells[0].len()).map(|x| x as i32 - 1))
MarchBox(cs) == [min |-> <<0, 0>>, max |-> <<CellsLen(cs) - 1, Cells0Len(cs) - 1>>]

\* |vec2(x, y)| cells[x as usize][y as usize], on the corners the box reaches;
\* an index outside the grid panics
FieldDomain(box) ==
    (box.min[1] .. box.max[1]) \X (box.min[2] .. box.max[2])
FieldInGrid(cs, box) ==
    \/ box.max[1] <= box.min[1]
    \/ box.max[2] <= box.min[2]
    \/ \A p \in FieldDomain(box) : p[1] \in DOMAIN cs /\ p[2] \in DOMAIN cs[p[1]]
Field(cs, box) == [p \in FieldDomain(box) |-> cs[p[1]][p[2]]]

-----------------------------------------------------------------------------
(* generate_mesh: the normal table (lib.rs 117-129) *)

\* vec2::rotate_90
Rotate90(v) == <<RNeg(v[2]), v[1]>>

RAbs(a) == <<Abs(a[1]), a[2]>>

\* normalize_or_zero.  The unit vector is modelled by the vector of the same
\* direction whose components' absolute values sum to 1: two vectors have
\* the same image exactly when they have the same unit vector.
Normalize(v) ==
    LET l == RAdd(RAbs(v[1]), RAbs(v[2]))
    IN  IF l = RZero THEN <<RZero, RZero>> ELSE <<RDiv(v[1], l), RDiv(v[2], l)>>

\* (b.pos - a.pos).rotate_90().normalize_or_zero()
EdgeNormal(a, b) == Normalize(Rotate90(<<RSub(b.pos[1], a.pos[1]), RSub(b.pos[2], a.pos[2])>>))

\* a.value == iso && b.value == iso
IsSilhouette(iso, a, b) == a.value = iso /\ b.value = iso

\* the pairs (a, b) of face.iter().circular_tuple_windows() that pass the filter
FaceEdges(iso, face) ==
    LET ps == CircularPairs(face)
    IN  Flatten([i \in 1 .. Len(ps) |->
            IF IsSilhouette(iso, ps[i][1], ps[i][2]) THEN <<ps[i]>> ELSE <<>>])

\* all of them, faces in order
SilhouetteEdges(iso, fs) == Flatten([i \in 1 .. Len(fs) |-> FaceEdges(iso, fs[i])])

\* the (pos, normal) entries in the order collect() inserts them
NormalEntries(iso, fs) ==
    LET es == SilhouetteEdges(iso, fs)
    IN  Flatten([i \in 1 .. Len(es) |->
            << <<es[i][1].pos, EdgeNormal(es[i][1], es[i][2])>>,
               <<es[i][2].pos, EdgeNormal(es[i][1], es[i][2])>> >>])

\* an insert that keeps the value of a key already present
FirstIndexOf(entries, k) ==
    LET at == { i \in DOMAIN entries : entries[i][1] = k }
    IN  CHOOSE i \in at : \A j \in at : i <= j

\* collect() into a BTreeMap: the entries are inserted in order, and
\* BTreeMap::insert replaces the value of a key already present
LastIndexOf(entries, k) ==
    LET at == { i \in DOMAIN entries : entries[i][1] = k }
    IN  CHOOSE i \in at : \A j \in at : j <= i

Collect(entries) ==
    [k \in { entries[i][1] : i \in DOMAIN entries } |-> entries[LastIndexOf(entries, k)][2]]

NormalTable(iso, fs) == Collect(NormalEntries(iso, fs))

-----------------------------------------------------------------------------
(* generate_mesh: front, back, side and the vertex map (lib.rs 131-188) *)

Reverse(s) == [i \in 1 .. Len(s) |-> s[Len(s) + 1 - i]]

Tag(vs, z) == [i \in 1 .. Len(vs) |-> <<vs[i], z>>]

Front(opt, fs) ==
    IF opt.front_face THEN Tag(Flatten(fs), 1) ELSE <<>>

Back(opt, fs) ==
    IF opt.back_face
    THEN Tag(Flatten([i \in 1 .. Len(fs) |-> Reverse(fs[i])]), -1)
    ELSE <<>>

\* the two triangles wound the other way round
SideOfEdgeFlipped(a, b) == << <<a, 1>>, <<b, -1>>, <<a, -1>>, <<a, 1>>, <<b, 1>>, <<b, -1>> >>

SideOfEdge(a, b) == << <<a, 1>>, <<a, -1>>, <<b, -1>>, <<a, 1>>, <<b, -1>>, <<b, 1>> >>

Side(opt, fs) ==
    LET es == SilhouetteEdges(opt.iso, fs)
    IN  Flatten([i \in 1 .. Len(es) |-> SideOfEdge(es[i][1], es[i][2])])

\* (x + 0.5) * cell_size as f32
PixelCoord(x, c) == RMul(RAdd(x, RHalf), RInt(c))

\* pixel_pos / texture.size(), one component (the normal term is `nudge`)
UvCoord(x, c, size) == RDiv(PixelCoord(x, c), RInt(size))

\* x * 2.0 - 1.0
Clip(u) == RSub(RMul(u, RInt(2)), ROne)

\* v.a_pos.z *= options.thickness * 0.5, for z = 1.0 or -1.0
ScaledZ(opt, z) == RMul(RInt(z), RMul(opt.thickness, RHalf))

\* One output vertex, before its z is set.  nudge is the term
\* normal * normal_uv_offset of the uv (zero when the position has no normal
\* or the offset is 0); a_uv and the x, y of a_pos are the values without
\* that term.
MakeVertex(img, opt, ns, pos) ==
    LET has == pos \in DOMAIN ns
        u == UvCoord(pos[1], opt.cell_size, img.w)
        v == UvCoord(pos[2], opt.cell_size, img.h)
        half == RMul(opt.height, RHalf)
        aspect == Rat(img.w, img.h)
    IN  [a_pos |-> << RMul(Clip(u), RMul(half, aspect)), RMul(Clip(v), half), RZero >>,
         a_uv |-> <<u, v>>,
         nudge |-> IF has
                   THEN <<RMul(ns[pos][1], RInt(opt.normal_uv_offset)),
                          RMul(ns[pos][2], RInt(opt.normal_uv_offset))>>
                   ELSE <<RZero, RZero>>,
         a_normal |-> IF has THEN <<ns[pos][1], ns[pos][2], RZero>>
                      ELSE <<RZero, RZero, ROne>>]

\* the vertex of every position that occurs in `all`
VertexTable(img, opt, ns, all) ==
    [p \in { all[i][1].pos : i \in DOMAIN all } |-> MakeVertex(img, opt, ns, p)]

\* chain![front, back, side] mapped to vertices (the vertex of a position
\* is looked up in the table: it depends on nothing else but z)
Assemble(img, opt, fs, ns) ==
    Bind(Front(opt, fs) \o Back(opt, fs) \o Side(opt, fs), LAMBDA all :
    Bind(VertexTable(img, opt, ns, all), LAMBDA at :
    Bind([z \in {-1, 1} |-> ScaledZ(opt, z)], LAMBDA zs :
        [i \in 1 .. Len(all) |-> [at[all[i][1].pos] EXCEPT !.a_pos[3] = zs[all[i][2]]]])))

-----------------------------------------------------------------------------
(* generate_mesh as a whole (lib.rs 78-189) *)

\* the variables of a call that is not being made
MeshIdle == cells = None /\ bb = None /\ faces = None /\ normals = None /\ vertices = None
TexIdle == queue = <<>> /\ visited = {} /\ new_data = <<>> /\ fixed = <<>>
GlbIdle == mesh = None /\ json_len = None /\ png_len = None /\ glb = None

Init ==
    /\ pc = "start"
    /\ texture \in Images
    /\ options \in OptionsSet
    /\ cells = None
    /\ bb = None
    /\ faces = None
    /\ normals = None
    /\ vertices = None
    /\ TexIdle
    /\ GlbIdle

\* cell_size = 0: the grid dimension divides by zero and the call panics
\* before anything is built
GenerateMeshDivPanic ==
    /\ pc = "start"
    /\ options.cell_size = 0
    /\ pc' = "panic"
    /\ UNCHANGED <<texture, options, meshVars, texVars, glbVars>>

\* width 0: the grid is built (no columns) and cells[0] panics
GenerateMeshIndexPanic ==
    /\ pc = "start"
    /\ options.cell_size # 0
    /\ cells' = BuildCells(texture, options.cell_size)
    /\ CellsLen(cells') = 0
    /\ pc' = "panic"
    /\ UNCHANGED <<texture, options, bb, faces, normals, vertices, texVars, glbVars>>

\* every other call: the grid, the contour, the normal table and the
\* vertices; sampling the field outside the grid is an index panic
GenerateMesh ==
    /\ pc = "start"
    /\ options.cell_size # 0
    /\ cells' = BuildCells(texture, options.cell_size)
    /\ CellsLen(cells') # 0
    /\ bb' = MarchBox(cells')
    /\ IF FieldInGrid(cells', bb')
       THEN /\ faces' = marching_triangles(bb', Field(cells', bb'), options.iso)
            /\ normals' = NormalTable(options.iso, faces')
            /\ vertices' = Assemble(texture, options, faces', normals')
            /\ pc' = "done"
       ELSE /\ pc' = "panic"
            /\ UNCHANGED <<faces, normals, vertices>>
    /\ UNCHANGED <<texture, options, texVars, glbVars>>

Next ==
    \/ GenerateMeshDivPanic
    \/ GenerateMeshIndexPanic
    \/ GenerateMesh

Spec == Init /\ [][Next]_vars

\* The contour of every arrangement of densities: every image two pixels
\* high or two pixels wide with alpha 0, SemiAlpha or u8::MAX in each pixel, one pixel to the
\* cell, contoured at the iso that the middle density equals: every corner
\* is below, at or above it.
MarchAlphas == {0, SemiAlpha, U8Max}

MarchImages ==
    { [w |-> MaxDim - 1, h |-> 2, a |-> a] : a \in [Pixels(MaxDim - 1, 2) -> MarchAlphas] }
    \cup { [w |-> 2, h |-> MaxDim - 1, a |-> a] : a \in [Pixels(2, MaxDim - 1) -> MarchAlphas] }

MarchIsos == { Rat(SemiAlpha, U8Max) }

MarchOptions == { [DefaultOptions EXCEPT !.cell_size = 1, !.iso = i] : i \in MarchIsos }

InitMarch ==
    /\ pc = "start"
    /\ texture \in MarchImages
    /\ options \in MarchOptions
    /\ MeshIdle
    /\ TexIdle
    /\ GlbIdle

NextMarch == GenerateMesh

SpecMarch == InitMarch /\ [][NextMarch]_vars

-----------------------------------------------------------------------------
(* fix_texture (lib.rs 221-255) *)

\* Rgba::<f32>::BLUE, the colour new_data is filled with
Blue == <<"BLUE">>

\* data.get(p.x, p.y).convert(): the colour of pixel p of the source
ColourOf(img, p) == <<"colour of", p[1], p[2]>>

\* a seed of any alpha but 0
IsSeedNotTransparent(img, p) == img.a[p] # 0

\* data.get(x, y).a == u8::MAX
IsSeed(img, p) == img.a[p] = U8Max

\* for x in 0..size.x, for y in 0..size.y
ScanOrder(img) ==
    [k \in 1 .. img.w * img.h |-> <<(k - 1) \div img.h, (k - 1) % img.h>>]

Seeds(img) == SelectSeq(ScanOrder(img), LAMBDA p : IsSeed(img, p))

Directions == << <<-1, 0>>, <<1, 0>>, <<0, 1>>, <<0, -1>> >>

\* the loop with visited.insert(nv) left out: a pixel is marked only when
\* it is a seed
RECURSIVE SpreadUnmarked(_, _, _, _, _)
SpreadUnmarked(img, v, nearest, i, st) ==
    IF i > Len(Directions) THEN st
    ELSE LET nv == <<v[1] + Directions[i][1], v[2] + Directions[i][2]>>
         IN  IF nv[1] < 0 \/ nv[2] < 0 \/ nv[1] >= img.w \/ nv[2] >= img.h \/ nv \in st.visited
             THEN SpreadUnmarked(img, v, nearest, i + 1, st)
             ELSE SpreadUnmarked(img, v, nearest, i + 1,
                    [queue |-> Append(st.queue, <<nv, nearest>>), visited |-> st.visited])

\* the for loop over the four directions, from direction i on;
\* st is [queue, visited]
RECURSIVE Spread(_, _, _, _, _)
Spread(img, v, nearest, i, st) ==
    IF i > Len(Directions) THEN st
    ELSE LET nv == <<v[1] + Directions[i][1], v[2] + Directions[i][2]>>
         IN  IF nv[1] < 0 \/ nv[2] < 0
             THEN Spread(img, v, nearest, i + 1, st)
             ELSE IF nv[1] >= img.w \/ nv[2] >= img.h
             THEN Spread(img, v, nearest, i + 1, st)
             ELSE IF nv \in st.visited
             THEN Spread(img, v, nearest, i + 1, st)
             ELSE Spread(img, v, nearest, i + 1,
                    [queue |-> Append(st.queue, <<nv, nearest>>),
                     visited |-> st.visited \cup {nv}])

\* The textures explored: the images above, and two opaque pixels on a
\* transparent or partially transparent ground.
TexImages ==
    Images \cup
    UNION { { TwoTone(d[1], d[2], bg, U8Max, {p, q}) :
                p \in Pixels(d[1], d[2]), q \in Pixels(d[1], d[2]), bg \in {0, SemiAlpha} } :
            d \in Dims }

InitTexture ==
    /\ pc = "start"
    /\ texture \in TexImages
    /\ options = DefaultOptions
    /\ MeshIdle
    /\ TexIdle
    /\ GlbIdle

\* lines 225-235: the seeds, in scan order, and the blue canvas
FixTextureSeed ==
    /\ pc = "start"
    /\ queue' = [i \in 1 .. Len(Seeds(texture)) |-> <<Seeds(texture)[i], Seeds(texture)[i]>>]
    /\ visited' = { Seeds(texture)[i] : i \in 1 .. Len(Seeds(texture)) }
    /\ new_data' = [p \in Pixels(texture.w, texture.h) |-> Blue]
    /\ pc' = "loop"
    /\ UNCHANGED <<texture, options, fixed, meshVars, glbVars>>

\* lines 236-253: one iteration of while let Some((v, nearest)) = queue.pop_front()
FixTexturePop ==
    /\ pc = "loop"
    /\ queue # <<>>
    /\ LET v == Head(queue)[1]
           nearest == Head(queue)[2]
           st == Spread(texture, v, nearest, 1, [queue |-> Tail(queue), visited |-> visited])
       IN  /\ new_data' = [new_data EXCEPT ![v] = ColourOf(texture, nearest)]
           /\ queue' = st.queue
           /\ visited' = st.visited
    /\ UNCHANGED <<pc, texture, options, fixed, meshVars, glbVars>>

\* line 254: the queue is empty, the texture is built from new_data
FixTextureReturn ==
    /\ pc = "loop"
    /\ queue = <<>>
    /\ fixed' = <<[w |-> texture.w, h |-> texture.h, c |-> new_data]>>
    /\ pc' = "done"
    /\ UNCHANGED <<texture, options, queue, visited, new_data, meshVars, glbVars>>

NextTexture ==
    \/ FixTextureSeed
    \/ FixTexturePop
    \/ FixTextureReturn

SpecTexture == InitTexture /\ [][NextTexture]_vars

\* the state of the loop
TexProgress == <<pc, queue, visited, new_data>>

\* fix_texture is straight-line sequential code: whichever step is enabled is
\* taken
SpecTextureFair ==
    /\ SpecTexture
    /\ WF_TexProgress(FixTextureSeed)
    /\ WF_TexProgress(FixTexturePop)
    /\ WF_TexProgress(FixTextureReturn)

-----------------------------------------------------------------------------
(* glb::save (glb.rs 17-260) *)

\* usize byte lengths are pairs <<hi, lo>> standing for hi * 2^16 + lo
Base == 2 ^ 16

BigOf(n) == <<n \div Base, n % Base>>
BigAdd(a, b) == <<a[1] + b[1] + ((a[2] + b[2]) \div Base), (a[2] + b[2]) % Base>>

\* n & !3: the two low bits cleared
ClearLowBits(n) == <<n[1], n[2] - (n[2] % 4)>>

\* n + 3 without the mask
AlignNoMask(n) == BigAdd(n, BigOf(3))

\* align_to_multiple_of_four: (n + 3) & !3
align_to_multiple_of_four(n) == ClearLowBits(BigAdd(n, BigOf(3)))

\* to_padded_byte_vector, on the length: while len % 4 != 0 { push(0) }
RECURSIVE PadLoop(_)
PadLoop(len) == IF len[2] % 4 = 0 THEN len ELSE PadLoop(BigAdd(len, BigOf(1)))

\* mem::size_of::<Vertex>(): [f32; 3] and [f32; 2], repr(C)
VertexSize == 20

\* vec.len() * mem::size_of::<T>(), padded
to_padded_byte_vector(count, size) == PadLoop(BigOf(count * size))

\* the cast `as u32`, which wraps
AsU32(n) == [ok |-> TRUE, v |-> <<n[1] % Base, n[2]>>]

\* usize::try_into::<u32>()
TryIntoU32(n) == [ok |-> n[1] < Base, v |-> n]

\* f32 coordinates are modelled by integers (bounding_coords only compares
\* them); f32::MAX and f32::MIN by values beyond every coordinate explored
F32Max == 2 ^ 30
F32Min == -(2 ^ 30)

FMin(a, b) == IF b < a THEN b ELSE a
FMax(a, b) == IF b > a THEN b ELSE a

\* the loop of bounding_coords from point i on; acc is [min, max]
RECURSIVE BoundLoop(_, _, _)
BoundLoop(points, i, acc) ==
    IF i > Len(points) THEN acc
    ELSE BoundLoop(points, i + 1,
            [min |-> [k \in 1 .. 3 |-> FMin(acc.min[k], points[i][k])],
             max |-> [k \in 1 .. 3 |-> FMax(acc.max[k], points[i][k])]])

\* max starting from 0.0 instead of f32::MIN
bounding_coords_max_from_zero(points) ==
    BoundLoop(points, 1, [min |-> <<F32Max, F32Max, F32Max>>, max |-> <<0, 0, 0>>])

bounding_coords(points) ==
    BoundLoop(points, 1, [min |-> <<F32Max, F32Max, F32Max>>,
                          max |-> <<F32Min, F32Min, F32Min>>])

\* the bound on the number of vertices of the mesh handed to save
MaxVerts == 3

\* the positions the vertices are drawn from
Points == { <<-2, 0, 1>>, <<0, 0, 0>>, <<1, -1, -1>>, <<3, 2, -1>> }

RECURSIVE SeqsUpTo(_, _)
SeqsUpTo(S, n) ==
    IF n = 0 THEN { <<>> }
    ELSE SeqsUpTo(S, n - 1) \cup
         { Append(q, x) : q \in { r \in SeqsUpTo(S, n - 1) : Len(r) = n - 1 }, x \in S }

\* lengths of the serialized metadata explored (every residue mod 4)
JsonLens == { BigOf(1000 + k) : k \in 0 .. 3 }

\* lengths of the encoded image explored: small ones, and ones that bring
\* the total to either side of 2^32
PngLens ==
    { <<hi, lo>> : hi \in { 0, Base - 1, Base },
                   lo \in (64 .. 67) \cup ((Base - 1064) .. (Base - 1056)) }

InitGlb ==
    /\ pc = "start"
    /\ texture = Uniform(0, 0, 0)
    /\ options = DefaultOptions
    /\ MeshIdle
    /\ TexIdle
    /\ mesh \in SeqsUpTo(Points, MaxVerts)
    /\ json_len \in JsonLens
    /\ png_len \in PngLens
    /\ glb = None

\* what save has built when the header is made (lines 48-259)
SaveLayout(points, jlen, plen) ==
    LET vertex_data_end == to_padded_byte_vector(Len(points), VertexSize)
        texture_data_end == BigAdd(vertex_data_end, plen)
        json_offset == align_to_multiple_of_four(jlen)
        all_data_len == PadLoop(texture_data_end)
        bounds == bounding_coords(points)
    IN  [vertex_count |-> Len(points),
         min |-> bounds.min,
         max |-> bounds.max,
         buffer_byte_length |-> texture_data_end,
         vertex_view |-> [byte_offset |-> BigOf(0), byte_length |-> vertex_data_end,
                          byte_stride |-> VertexSize],
         image_view |-> [byte_offset |-> vertex_data_end, byte_length |-> plen],
         json_offset |-> json_offset,
         bin_len |-> all_data_len,
         length |-> TryIntoU32(BigAdd(json_offset, all_data_len))]

\* the length fits: the Glb is built and its bytes are returned
Save ==
    /\ pc = "start"
    /\ LET l == SaveLayout(mesh, json_len, png_len)
       IN  /\ l.length.ok
           /\ glb' = [header |-> [magic |-> "glTF", version |-> 2, length |-> l.length.v],
                      json_len |-> json_len,
                      bin_len |-> l.bin_len,
                      layout |-> l]
    /\ pc' = "done"
    /\ UNCHANGED <<texture, options, meshVars, texVars, mesh, json_len, png_len>>

\* the length does not fit:
\* expect("file size exceeds binary glTF limit") panics
SavePanic ==
    /\ pc = "start"
    /\ ~SaveLayout(mesh, json_len, png_len).length.ok
    /\ pc' = "panic"
    /\ UNCHANGED <<texture, options, meshVars, texVars, glbVars>>

NextGlb ==
    \/ Save
    \/ SavePanic

SpecGlb == InitGlb /\ [][NextGlb]_vars

-----------------------------------------------------------------------------
(* Properties of generate_mesh, checked under Spec *)

Transparent(img) == \A p \in DOMAIN img.a : img.a[p] = 0
Opaque(img) == \A p \in DOMAIN img.a : img.a[p] = U8Max
NonEmpty(img) == img.w >= 1 /\ img.h >= 1
InUnit(r) == RLe(RZero, r) /\ RLe(r, ROne)

\* C1 as stated: for every fully transparent image, every cell size >= 1 and
\* every iso in [0, 1], marching_triangles returns no face and generate_mesh
\* returns no vertex.  (Fails at iso = 0: every corner has value >= iso.)
C1_TransparentIsEmptyAnyIso ==
    (/\ pc # "start"
     /\ NonEmpty(texture)
     /\ Transparent(texture)
     /\ options.cell_size >= 1)
    => (pc = "done" /\ faces = <<>> /\ vertices = <<>>)

\* C1 amended: for every fully transparent image with at least one pixel,
\* every cell size >= 1 and every iso with 0 < iso <= 1, marching_triangles
\* returns no face and generate_mesh returns no vertex.
C1_TransparentIsEmpty ==
    (/\ pc # "start"
     /\ NonEmpty(texture)
     /\ Transparent(texture)
     /\ options.cell_size >= 1
     /\ RLt(RZero, options.iso))
    => (pc = "done" /\ faces = <<>> /\ vertices = <<>>)

\* a transparent image whose grid has cells to march, contoured at iso > 0
C1_Witness ==
    /\ pc = "done"
    /\ Transparent(texture)
    /\ RLt(RZero, options.iso)
    /\ bb.max[1] >= 2 /\ bb.max[2] >= 1
    /\ (options.front_face \/ options.back_face)
    /\ vertices = <<>>

\* C3: a call with cell_size = 0 or an image of width or height 0 ends in a
\* configuration error reported to the caller, and no grid, contour or
\* vertex has been built.  (The code has no such outcome: it panics, or
\* returns an empty list.)
C3_ConfigErrorRejected ==
    (pc # "start" /\ (options.cell_size = 0 \/ texture.w = 0 \/ texture.h = 0))
    => (pc = "error" /\ MeshIdle)

\* the least k with k * c >= n
CeilDiv(n, c) == CHOOSE k \in 0 .. n : k * c >= n /\ \A j \in 0 .. n : j * c >= n => k <= j

\* the pixels of the image that fall in cell (x, y)
CellBlock(img, c, x, y) ==
    { p \in DOMAIN img.a :
        /\ x * c <= p[1] /\ p[1] < (x + 1) * c
        /\ y * c <= p[2] /\ p[2] < (y + 1) * c }

RECURSIVE SumAlpha(_, _)
SumAlpha(img, S) ==
    IF S = {} THEN 0
    ELSE LET p == CHOOSE q \in S : TRUE IN img.a[p] + SumAlpha(img, S \ {p})

\* C4: for W, H, c >= 1 the grid has ceil(W/c) x ceil(H/c) cells; a cell's
\* density is the sum of alpha/255 over the pixels that fall in it divided
\* by their number, which is min(c, W - x*c) * min(c, H - y*c); so it lies in
\* [0, 1] and is 1 exactly when all those pixels are fully opaque.
C4_DensityIsBlockAverage ==
    (pc = "done" /\ NonEmpty(texture) /\ options.cell_size >= 1)
    => LET c == options.cell_size IN
       /\ DOMAIN cells = 0 .. CeilDiv(texture.w, c) - 1
       /\ \A x \in DOMAIN cells :
           /\ DOMAIN cells[x] = 0 .. CeilDiv(texture.h, c) - 1
           /\ \A y \in DOMAIN cells[x] :
               LET P == CellBlock(texture, c, x, y) IN
               /\ P # {}
               /\ Cardinality(P) = Min(c, texture.w - x * c) * Min(c, texture.h - y * c)
               /\ cells[x][y] = Rat(SumAlpha(texture, P), U8Max * Cardinality(P))
               /\ InUnit(cells[x][y])
               /\ (cells[x][y] = ROne <=> \A p \in P : texture.a[p] = U8Max)

\* a grid with a partial border cell whose density is strictly between 0 and 1
C4_Witness ==
    /\ pc = "done"
    /\ \E x \in DOMAIN cells : \E y \in DOMAIN cells[x] :
        /\ Cardinality(CellBlock(texture, options.cell_size, x, y))
                < options.cell_size * options.cell_size
        /\ RLt(RZero, cells[x][y])
        /\ RLt(cells[x][y], ROne)

\* C5: marching_triangles is run over the grid bounds expanded by at least
\* one cell on every side (outside samples being 0), so that a filled region
\* touching the image edge gets an outline: a fully opaque image has
\* silhouette edges.  (The code marches the unexpanded grid.)
C5_BorderRingMarched ==
    pc = "done"
    => /\ bb.min[1] <= -1 /\ bb.min[2] <= -1
       /\ bb.max[1] >= CellsLen(cells)
       /\ bb.max[2] >= Cells0Len(cells)
       /\ (Opaque(texture) /\ NonEmpty(texture) /\ RLt(RZero, options.iso))
            => SilhouetteEdges(options.iso, faces) # <<>>

\* C6: with normal_uv_offset = 0 both uv components of every vertex lie in
\* [0, 1], whatever the image size and cell_size >= 1.  (Fails when the
\* image size is not a multiple of cell_size: the last grid column lies
\* beyond the image.)
C6_UvInUnitSquare ==
    (pc = "done" /\ options.normal_uv_offset = 0)
    => \A i \in DOMAIN vertices :
            InUnit(vertices[i].a_uv[1]) /\ InUnit(vertices[i].a_uv[2])

\* C7: a 4x4 fully opaque image with cell_size 4, thickness 0.1, iso 0.5 and
\* both faces gives 12 vertices, each with uv in the unit square and
\* z = +0.05 or -0.05.  (The code's grid has one cell and nothing to march:
\* it gives no vertex.)
C7_OpaqueSquareScenario ==
    (/\ pc = "done"
     /\ texture = Uniform(4, 4, U8Max)
     /\ options.cell_size = 4
     /\ options.iso = RHalf
     /\ options.thickness = <<1, 10>>
     /\ options.front_face /\ options.back_face)
    => /\ Len(vertices) = 12
       /\ \A i \in DOMAIN vertices :
            /\ InUnit(vertices[i].a_uv[1]) /\ InUnit(vertices[i].a_uv[2])
            /\ vertices[i].a_pos[3] \in { <<1, 20>>, <<-1, 20>> }

-----------------------------------------------------------------------------
(* Properties of the contour, checked under SpecMarch *)

\* the field marching_triangles was called with
TheField == Field(cells, bb)

\* the vertices collected for the cell at (x, y)
CurrentOf(cell) == Current(TheField, options.iso, Corners(cell[1], cell[2]))

\* The edges of the fan of a polygon cur, as generate_mesh walks them (the
\* cyclic pairs of each face).  An edge is a side of the polygon when it
\* joins two consecutive vertices of cur, the last and the first included;
\* the other edges are the diagonals the fan adds.
FanEdges(cur) ==
    LET k == Len(cur)
    IN  IF k < 3 THEN {}
        ELSE UNION { { [a |-> cur[1], b |-> cur[i + 1], third |-> cur[i + 2], diagonal |-> i # 1],
                       [a |-> cur[i + 1], b |-> cur[i + 2], third |-> cur[1], diagonal |-> FALSE],
                       [a |-> cur[i + 2], b |-> cur[1], third |-> cur[i + 1], diagonal |-> i # k - 2] } :
                     i \in 1 .. k - 2 }

\* the cells marched
MarchedCells == { CellOrder(bb)[k] : k \in DOMAIN CellOrder(bb) }

\* the edges of all fans
AllFanEdges == UNION { FanEdges(CurrentOf(cell)) : cell \in MarchedCells }

\* a position that is no grid corner: a threshold crossing inside a grid edge
IsCrossing(pos) == pos[1][2] # 1 \/ pos[2][2] # 1

\* C12: every edge treated as a silhouette edge (both values equal to iso)
\* lies on the outline of the filled region: it is a side of its cell's
\* polygon, not a diagonal of the fan, and it joins two threshold crossings,
\* not grid corners whose density equals iso.  (The code's test is on the
\* values alone: it also accepts diagonals and corner-to-corner edges.)
C12_SilhouetteOnOutline ==
    pc = "done"
    => \A e \in AllFanEdges :
        IsSilhouette(options.iso, e.a, e.b)
        => (~e.diagonal /\ IsCrossing(e.a.pos) /\ IsCrossing(e.b.pos))

\* the four consecutive corner pairs of a cell, in the order march walks them
CornerPairs(cell) == CircularPairs(Corners(cell[1], cell[2]))

\* all the corner pairs walked
AllCornerPairs ==
    UNION { { CornerPairs(cell)[i] : i \in 1 .. 4 } : cell \in MarchedCells }

\* the densities of two corners lie strictly on opposite sides of iso
StrictlyOpposite(iso, va, vb) ==
    \/ RLt(va, iso) /\ RLt(iso, vb)
    \/ RLt(vb, iso) /\ RLt(iso, va)

\* the point of the segment between the grid points lo and hi where the
\* density, interpolated linearly from lo, is iso
CrossingPoint(f, iso, lo, hi) ==
    LET t == RDiv(RSub(iso, f[lo]), RSub(f[hi], f[lo]))
    IN  <<RAdd(RInt(lo[1]), RMul(RInt(hi[1] - lo[1]), t)),
          RAdd(RInt(lo[2]), RMul(RInt(hi[2] - lo[2]), t))>>

\* what a corner pair is to emit
ExpectedOfPair(f, iso, ia, ib) ==
    LET lo == IF ia[1] < ib[1] \/ ia[2] < ib[2] THEN ia ELSE ib
        hi == IF lo = ia THEN ib ELSE ia
    IN  (IF RLe(iso, f[ia]) THEN <<[pos |-> V2(ia[1], ia[2]), value |-> f[ia]]>> ELSE <<>>)
        \o (IF StrictlyOpposite(iso, f[ia], f[ib])
            THEN <<[pos |-> CrossingPoint(f, iso, lo, hi), value |-> iso]>>
            ELSE <<>>)
        \o (IF RLe(iso, f[ib]) THEN <<[pos |-> V2(ib[1], ib[2]), value |-> f[ib]]>> ELSE <<>>)

\* the interpolated vertices among those a corner pair emits
CrossingsOf(ia, ib) ==
    SelectSeq(PairVertices(TheField, options.iso, ia, ib), LAMBDA v : IsCrossing(v.pos))

FacesOfCount(k) == IF k >= 3 THEN k - 2 ELSE 0

\* the number of faces the first n cells are to add; curs[k] is what the
\* k-th cell collected
RECURSIVE FacesBefore(_, _)
FacesBefore(curs, n) ==
    IF n = 0 THEN 0 ELSE FacesBefore(curs, n - 1) + FacesOfCount(Len(curs[n]))

\* C14: a cell that collected k vertices v0 .. v[k-1] adds the k - 2 faces
\* (v0, v[i], v[i+1]), i = 1 .. k-2, in that order, when k >= 3 and none
\* when k < 3; the faces of the cells follow one another in the order the
\* cells are visited; no vertex is dropped as a duplicate; every vertex of
\* every face has value >= iso.
C14_FanPerCell ==
    pc = "done"
    => Bind([k \in DOMAIN CellOrder(bb) |-> CurrentOf(CellOrder(bb)[k])], LAMBDA curs :
        /\ Len(faces) = FacesBefore(curs, Len(curs))
        /\ \A k \in DOMAIN curs :
            \A i \in 1 .. FacesOfCount(Len(curs[k])) :
                faces[FacesBefore(curs, k - 1) + i] = <<curs[k][1], curs[k][i + 1], curs[k][i + 2]>>
        /\ \A k \in DOMAIN curs :
            Len(curs[k]) = Len(FlattenRange(
                [j \in 1 .. 4 |->
                    ExpectedOfPair(TheField, options.iso,
                        CornerPairs(CellOrder(bb)[k])[j][1], CornerPairs(CellOrder(bb)[k])[j][2])],
                1, 4))
        /\ \A n \in DOMAIN faces : \A j \in 1 .. 3 : RLe(options.iso, faces[n][j].value))

\* two cells that add faces, the second one from a polygon in which a corner
\* occurs twice and a crossing occurs
C14_Witness ==
    /\ pc = "done"
    /\ Len(CellOrder(bb)) >= 2
    /\ Len(CurrentOf(CellOrder(bb)[1])) >= 4
    /\ LET cur == CurrentOf(CellOrder(bb)[2])
       IN  /\ Len(cur) >= 5
           /\ \E i \in 1 .. Len(cur) - 1 : cur[i] = cur[i + 1]
           /\ \E i \in DOMAIN cur : IsCrossing(cur[i].pos)

\* the silhouette edges of the returned faces, each named by its face and
\* its place in the face: <<n, j>> is the edge from faces[n][j] to the next
\* vertex of faces[n], cyclically
EdgeFrom(e) == faces[e[1]][e[2]]
EdgeTo(e) == faces[e[1]][(e[2] % 3) + 1]
SilhouetteIds ==
    { e \in (DOMAIN faces) \X (1 .. 3) : IsSilhouette(options.iso, EdgeFrom(e), EdgeTo(e)) }

\* e is encountered before d: faces in order, the pairs of a face in order
Before(e, d) == e[1] < d[1] \/ (e[1] = d[1] /\ e[2] < d[2])

\* the silhouette edges that end or start at pos
EdgesAt(pos) == { e \in SilhouetteIds : EdgeFrom(e).pos = pos \/ EdgeTo(e).pos = pos }

\* the direction of an edge turned by 90 degrees, normalized
NormalOfEdge(e) == EdgeNormal(EdgeFrom(e), EdgeTo(e))

\* C15: the normal table has an entry for exactly the endpoints of the
\* silhouette edges, and the entry of a position is the normal of the last
\* silhouette edge, in encounter order, that has it as an endpoint, not a
\* combination of the normals of several.
C15_LastEdgeWins ==
    pc = "done"
    => /\ DOMAIN normals = { EdgeFrom(e).pos : e \in SilhouetteIds }
                                \cup { EdgeTo(e).pos : e \in SilhouetteIds }
       /\ \A pos \in DOMAIN normals :
            \E e \in EdgesAt(pos) :
                /\ \A d \in EdgesAt(pos) : d = e \/ Before(d, e)
                /\ normals[pos] = NormalOfEdge(e)

\* a position that is an endpoint of silhouette edges with different
\* normals
C15_Witness ==
    /\ pc = "done"
    /\ \E pos \in DOMAIN normals :
        \E e, d \in EdgesAt(pos) :
            /\ Before(d, e)
            /\ NormalOfEdge(d) # NormalOfEdge(e)
            /\ normals[pos] = NormalOfEdge(e)

\* the third vertex of the face of edge e
EdgeThird(e) == faces[e[1]][((e[2] + 1) % 3) + 1]

Dot(u, w) == RAdd(RMul(u[1], w[1]), RMul(u[2], w[2]))

\* the vector from the start of edge e to the third vertex of its face
ToThird(e) ==
    <<RSub(EdgeThird(e).pos[1], EdgeFrom(e).pos[1]),
      RSub(EdgeThird(e).pos[2], EdgeFrom(e).pos[2])>>

\* C16: the normal of every silhouette edge points away from the filled
\* region: its dot product with the vector from the edge to the third vertex
\* of the fan triangle the edge belongs to is negative.  (With the fan's
\* winding and rotate_90 the product is the doubled signed area of the
\* triangle, which is never negative for a convex cell polygon.)
C16_NormalPointsOutward ==
    pc = "done"
    => \A e \in SilhouetteIds : RLt(Dot(NormalOfEdge(e), ToThird(e)), RZero)

-----------------------------------------------------------------------------
(* Properties of the assembled list, checked under Spec *)

\* the silhouette edges in encounter order
SilhouetteSeq ==
    SelectSeq([m \in 1 .. 3 * Len(faces) |-> <<((m - 1) \div 3) + 1, ((m - 1) % 3) + 1>>],
              LAMBDA e : IsSilhouette(options.iso, EdgeFrom(e), EdgeTo(e)))

\* the output vertex x is the contour vertex v placed at z (z is +1 or -1
\* before the thickness scaling)
IsVertexOf(x, v, z) ==
    /\ x.a_uv[1] = RDiv(RMul(RAdd(v.pos[1], RHalf), RInt(options.cell_size)), RInt(texture.w))
    /\ x.a_uv[2] = RDiv(RMul(RAdd(v.pos[2], RHalf), RInt(options.cell_size)), RInt(texture.h))
    /\ x.a_pos[3] = RMul(RInt(z), RDiv(options.thickness, RInt(2)))

\* C17: the output is the front vertices, then the back vertices, then the
\* side vertices: with F faces and S silhouette edges it has
\* 3F [front_face] + 3F [back_face] + 6S vertices, a multiple of 3, and the
\* six vertices of the k-th silhouette edge (a, b) are (a,+1), (a,-1),
\* (b,-1), (a,+1), (b,-1), (b,+1), whatever the two flags are.
C17_FrontBackSide ==
    pc = "done"
    => Bind(SilhouetteSeq, LAMBDA es :
        LET F == Len(faces)
            nf == IF options.front_face THEN 3 * F ELSE 0
            nb == IF options.back_face THEN 3 * F ELSE 0
        IN  /\ Len(vertices) = nf + nb + 6 * Len(es)
            /\ Len(vertices) % 3 = 0
            /\ options.front_face =>
                \A n \in 1 .. F : \A j \in 1 .. 3 :
                    IsVertexOf(vertices[3 * (n - 1) + j], faces[n][j], 1)
            /\ options.back_face =>
                \A n \in 1 .. F : \A j \in 1 .. 3 :
                    IsVertexOf(vertices[nf + 3 * (n - 1) + j], faces[n][4 - j], -1)
            /\ \A k \in DOMAIN es :
                LET a == EdgeFrom(es[k])
                    b == EdgeTo(es[k])
                    at == nf + nb + 6 * (k - 1)
                IN  /\ IsVertexOf(vertices[at + 1], a, 1)
                    /\ IsVertexOf(vertices[at + 2], a, -1)
                    /\ IsVertexOf(vertices[at + 3], b, -1)
                    /\ IsVertexOf(vertices[at + 4], a, 1)
                    /\ IsVertexOf(vertices[at + 5], b, -1)
                    /\ IsVertexOf(vertices[at + 6], b, 1))

\* side walls alone: both flags off and a silhouette edge between two
\* different positions
C17_Witness ==
    /\ pc = "done"
    /\ ~options.front_face /\ ~options.back_face
    /\ Len(faces) >= 2
    /\ \E k \in DOMAIN SilhouetteSeq : EdgeFrom(SilhouetteSeq[k]).pos # EdgeTo(SilhouetteSeq[k]).pos
    /\ Len(vertices) = 6 * Len(SilhouetteSeq)

-----------------------------------------------------------------------------
(* Properties of fix_texture, checked under SpecTexture *)

OpaquePixels(img) == { p \in DOMAIN img.a : img.a[p] = U8Max }

\* the 4-connected grid distance of two pixels of a rectangle
GridDist(p, q) == Abs(p[1] - q[1]) + Abs(p[2] - q[2])

\* C2: the repaired texture has the source's dimensions, and every pixel
\* holds the colour of a fully opaque source pixel at the least 4-connected
\* distance (its own, if it is fully opaque); if no pixel is fully opaque,
\* every pixel holds the fill colour.
C2_NearestOpaqueColour ==
    pc = "done"
    => /\ fixed[1].w = texture.w /\ fixed[1].h = texture.h
       /\ DOMAIN fixed[1].c = DOMAIN texture.a
       /\ \A p \in DOMAIN fixed[1].c :
            IF OpaquePixels(texture) = {}
            THEN fixed[1].c[p] = Blue
            ELSE \E q \in OpaquePixels(texture) :
                    /\ fixed[1].c[p] = ColourOf(texture, q)
                    /\ \A r \in OpaquePixels(texture) : GridDist(p, q) <= GridDist(p, r)
       /\ \A p \in OpaquePixels(texture) : fixed[1].c[p] = ColourOf(texture, p)

\* two opaque pixels, and a partially transparent pixel at least two steps
\* from both that took the colour of one of them
C2_Witness ==
    /\ pc = "done"
    /\ Cardinality(OpaquePixels(texture)) = 2
    /\ \E p \in DOMAIN texture.a :
        /\ texture.a[p] = SemiAlpha
        /\ \A q \in OpaquePixels(texture) : GridDist(p, q) >= 2
        /\ \E q \in OpaquePixels(texture) : fixed[1].c[p] = ColourOf(texture, q)

\* the pixels waiting in the queue, and the pixels written so far (a written
\* pixel holds a source colour, never the fill colour)
QueuePixels == { queue[i][1] : i \in DOMAIN queue }
WrittenPixels == { p \in DOMAIN new_data : new_data[p] # Blue }

\* no pixel is in the queue twice; every queued pixel is marked visited; the
\* visited pixels that have left the queue are exactly the written ones
C11_QueueState ==
    pc \in {"loop", "done"}
    => /\ \A i, j \in DOMAIN queue : i # j => queue[i][1] # queue[j][1]
       /\ QueuePixels \subseteq visited
       /\ WrittenPixels = visited \ QueuePixels
       /\ (pc = "done" /\ OpaquePixels(texture) # {})
            => (queue = <<>> /\ WrittenPixels = DOMAIN texture.a)

\* an iteration writes the pixel it dequeued, which was not written before,
\* and no other; what it enqueues was not visited and is visited afterwards
C11_PopStep ==
    (pc = "loop" /\ pc' = "loop")
    => LET v == Head(queue)[1]
           added == { queue'[i][1] : i \in Len(queue) .. Len(queue') }
       IN  /\ v \notin WrittenPixels
           /\ WrittenPixels' = WrittenPixels \cup {v}
           /\ added \cap visited = {}
           /\ visited' = visited \cup added
           /\ Len(queue') = Len(queue) - 1 + Cardinality(added)

\* C11: a pixel is marked visited when it is enqueued, so that no pixel is
\* enqueued twice and every pixel is dequeued and written at most once; the
\* loop terminates, with an empty queue, and when some pixel is fully opaque
\* every pixel has then been written exactly once.
C11_EachPixelOnce ==
    /\ []C11_QueueState
    /\ [][C11_PopStep]_TexProgress
    /\ <>(pc = "done")

\* a finished fill from a single seed of an image in which a pixel has two
\* neighbours that are written before it
C11_Witness ==
    /\ pc = "done"
    /\ Cardinality(OpaquePixels(texture)) = 1
    /\ texture.w >= 2 /\ texture.h >= 2
    /\ WrittenPixels = DOMAIN texture.a

-----------------------------------------------------------------------------
(* Properties of glb::save, checked under SpecGlb *)

\* the least multiple of 4 that is >= n
PadUp(n) ==
    BigAdd(n, BigOf(CHOOSE k \in 0 .. 3 :
                        (n[2] + k) % 4 = 0 /\ \A j \in 0 .. 3 : (n[2] + j) % 4 = 0 => k <= j))

\* the bytes of the binary block: the vertex block, padded, then the image
BinaryBlockLen == BigAdd(PadUp(BigOf(Len(mesh) * VertexSize)), png_len)

\* the length save computes for the header, as a number
TotalLen == BigAdd(PadUp(json_len), PadUp(BinaryBlockLen))

IsMultipleOf4(n) == n[2] % 4 = 0

\* C8: the header's length field is the metadata length padded to a
\* multiple of 4 plus the binary block length padded to a multiple of 4, and
\* both padded lengths are multiples of 4.
C8_HeaderLengthIsPaddedSum ==
    pc = "done"
    => /\ glb.layout.json_offset = PadUp(json_len)
       /\ glb.bin_len = PadUp(BinaryBlockLen)
       /\ IsMultipleOf4(glb.layout.json_offset)
       /\ IsMultipleOf4(glb.bin_len)
       /\ glb.header.length = BigAdd(PadUp(json_len), PadUp(BinaryBlockLen))

\* a metadata length and a binary block length that both need padding
C8_Witness ==
    /\ pc = "done"
    /\ ~IsMultipleOf4(json_len)
    /\ ~IsMultipleOf4(BinaryBlockLen)
    /\ Len(mesh) >= 1

\* C9 as stated: when the total does not fit in 32 bits, save returns an
\* explicit error value to its caller.  (It panics.)
C9_OverflowIsErrorValue ==
    (pc # "start" /\ TotalLen[1] >= Base) => pc = "error"

\* C9 amended: when the total does not fit in 32 bits, save panics ("file
\* size exceeds binary glTF limit") and returns nothing; whenever it returns,
\* the declared length is the total itself, below 2^32.
C9_OverflowPanics ==
    /\ (pc # "start" /\ TotalLen[1] >= Base) => pc = "panic"
    /\ pc = "done" => (glb.header.length = TotalLen /\ glb.header.length[1] < Base)
    /\ pc = "panic" => TotalLen[1] >= Base

\* a total of exactly 2^32, the least that does not fit
C9_Witness ==
    /\ pc = "panic"
    /\ TotalLen = <<Base, 0>>

\* C10 as stated: min and max bound every position, and on each axis some
\* vertex attains min and some vertex attains max.  (Not for an empty mesh.)
C10_BoundsAttained ==
    pc = "done"
    => \A k \in 1 .. 3 :
        /\ \A i \in DOMAIN mesh :
            glb.layout.min[k] <= mesh[i][k] /\ mesh[i][k] <= glb.layout.max[k]
        /\ \E i \in DOMAIN mesh : mesh[i][k] = glb.layout.min[k]
        /\ \E i \in DOMAIN mesh : mesh[i][k] = glb.layout.max[k]

\* C10 amended: for a mesh with at least one vertex, min and max bound every
\* position and are attained on each axis; for an empty mesh min is
\* f32::MAX and max is f32::MIN on each axis.
C10_BoundsAttainedNonEmpty ==
    pc = "done"
    => \A k \in 1 .. 3 :
        IF mesh = <<>>
        THEN glb.layout.min[k] = F32Max /\ glb.layout.max[k] = F32Min
        ELSE /\ \A i \in DOMAIN mesh :
                glb.layout.min[k] <= mesh[i][k] /\ mesh[i][k] <= glb.layout.max[k]
             /\ \E i \in DOMAIN mesh : mesh[i][k] = glb.layout.min[k]
             /\ \E i \in DOMAIN mesh : mesh[i][k] = glb.layout.max[k]

\* three vertices, the extremes on the x axis attained by different ones
\* and every x below zero or every z below zero
C10_Witness ==
    /\ pc = "done"
    /\ Len(mesh) = 3
    /\ glb.layout.min[1] < glb.layout.max[1]
    /\ glb.layout.max[3] < 0

====
